---- MODULE Spec2Model ----
(***************************************************************************)
(* Projefa: the persistence router (DataSyncService) over the relational   *)
(* backend (DatabaseService, SQLite) and the document backend              *)
(* (StorageService, Ionic Storage).                                        *)
(*                                                                         *)
(* Timestamps are naturals: every caller produces them with                *)
(* Date.toISOString(), whose fixed-width strings compare as the instants   *)
(* do.  A record of the document backend is a function from field names    *)
(* to values (an absent optional field is absent from its DOMAIN); a row   *)
(* of the relational backend has every column, NULL included.              *)
(***************************************************************************)
EXTENDS Integers, Sequences, FiniteSets, TLC

\* ------------------------------------------------------------------ bounds
MaxOps == 1
MaxTime == 1

\* ------------------------------------------------------------------ values
CategoryIds == {"c1", "c2"}
ProjectIds == {"p1", "p2"}
TaskIds == {"t1", "t2", "t3"}

\* JavaScript null, where a string is expected (SQL NULL in a column) and
\* where a record is expected (no row, nothing found)
Null == "null"
NoRecord == [null |-> TRUE]

\* a property a record does not have
Absent == "undefined"

VARIABLES
  useSQLite,      \* DataSyncService.useSQLite = Capacitor.isNativePlatform()
  isInitialized,  \* DatabaseService.isInitialized
  dbCategories,   \* table categories: id -> row
  dbProjects,     \* table projects: id -> row
  dbTasks,        \* table tasks: id -> row
  stCategories,   \* storage key 'categories': list of records
  stProjects,     \* storage key 'projects'
  stTasks,        \* storage key 'tasks'
  now,            \* the clock read by new Date()
  nOps,           \* router write calls made so far
  lastWrite,      \* the last router write call and how it was served
  lastRead,       \* the last router read call since lastWrite, and its result
  seedExecuted,   \* storage key 'settings', entry seedExecuted
  pending,        \* the async calls in flight: caller -> its frame
  tasksSubject    \* TaskService.tasksSubject: the last value of tasks$

vars == <<useSQLite, isInitialized, dbCategories, dbProjects,
          dbTasks, stCategories, stProjects, stTasks, now, nOps, lastWrite,
          lastRead, seedExecuted, pending, tasksSubject>>

\* the state of the seed and of the services' callers
app == <<seedExecuted, pending, tasksSubject>>

stores == <<dbCategories, dbProjects, dbTasks, stCategories, stProjects, stTasks>>

NoCall == [op |-> "none"]

\* ------------------------------------------------------------------ helpers
\* Array.prototype.findIndex(x => x.id === id): the first index, 0 for -1
FindIndex(list, id) ==
  IF \E i \in 1..Len(list) : list[i].id = id
  THEN CHOOSE i \in 1..Len(list) :
         /\ list[i].id = id
         /\ \A j \in 1..(i - 1) : list[j].id # id
  ELSE 0

\* Array.prototype.find(x => x.id === id) || null
FindById(list, id) ==
  IF FindIndex(list, id) = 0 THEN NoRecord ELSE list[FindIndex(list, id)]

\* { ...record, ...updates, updatedAt: new Date().toISOString() }
SpreadUpdate(record, updates, ts) ==
  [f \in (DOMAIN record) \cup (DOMAIN updates) \cup {"updatedAt"} |->
     IF f = "updatedAt" THEN ts
     ELSE IF f \in DOMAIN updates THEN updates[f]
     ELSE record[f]]

\* the sequences that list every element of S once, none before one that
\* must precede it
SortedSeqs(S, Precedes(_, _)) ==
  {s \in [1..Cardinality(S) -> S] :
     /\ \A i, j \in 1..Cardinality(S) : i # j => s[i] # s[j]
     /\ \A i, j \in 1..Cardinality(S) : i < j => ~Precedes(s[j], s[i])}

Range(f) == {f[x] : x \in DOMAIN f}

Ids(list) == {list[i].id : i \in 1..Len(list)}

\* ------------------------------------------------------- StorageService
\* a variant: the record is pushed twice
Storage_add_twice(list, record) == Append(Append(list, record), record)

Storage_add(list, record) == Append(list, record)

\* a variant: the updated record moves to the end of the list
Storage_update_moveToEnd(list, id, updates, ts) ==
  IF FindIndex(list, id) # 0
  THEN Append(SelectSeq(list, LAMBDA r : r # list[FindIndex(list, id)]),
              SpreadUpdate(list[FindIndex(list, id)], updates, ts))
  ELSE list

Storage_update(list, id, updates, ts) ==
  IF FindIndex(list, id) # 0
  THEN [list EXCEPT ![FindIndex(list, id)] =
          SpreadUpdate(list[FindIndex(list, id)], updates, ts)]
  ELSE list

Storage_delete(list, id) == SelectSeq(list, LAMBDA r : r.id # id)

\* ------------------------------------------------------- DatabaseService
\* ensureInitialized() returns without throwing
Database_ensureInitialized == isInitialized /\ useSQLite

\* the row INSERT INTO tasks stores for a Task
TaskRow(task) ==
  [id |-> task.id,
   projectId |-> task.projectId,
   title |-> task.title,
   description |-> task.description,
   dueDate |-> task.dueDate,
   image |-> IF "image" \in DOMAIN task /\ task.image # "" THEN task.image ELSE Null,
   completed |-> IF task.completed THEN 1 ELSE 0,
   order |-> task.order,
   createdAt |-> task.createdAt,
   updatedAt |-> task.updatedAt]

\* { ...task, completed: task.completed === 1 }
RowTask(row) == [row EXCEPT !.completed = (row.completed = 1)]

\* the INSERT violates no constraint: PRIMARY KEY(id), FOREIGN KEY(projectId)
Database_createTask_ok(task) ==
  /\ task.id \notin DOMAIN dbTasks
  /\ task.projectId \in DOMAIN dbProjects

Database_createTask(task) ==
  [i \in (DOMAIN dbTasks) \cup {task.id} |->
     IF i = task.id THEN TaskRow(task) ELSE dbTasks[i]]

\* the columns updateTask copies from the updates
TaskUpdateColumns ==
  {"projectId", "title", "description", "dueDate", "image", "completed", "order"}

\* the UPDATE violates no constraint: FOREIGN KEY(projectId) of a matched row
Database_updateTask_ok(id, updates) ==
  (id \in DOMAIN dbTasks /\ "projectId" \in DOMAIN updates)
     => updates.projectId \in DOMAIN dbProjects

\* a variant that copies every field of the updates but updatedAt
Database_updateTask_everyField(id, updates, ts) ==
  IF id \in DOMAIN dbTasks
  THEN [dbTasks EXCEPT ![id] =
          [f \in DOMAIN dbTasks[id] |->
             IF f = "updatedAt" THEN ts
             ELSE IF f \in DOMAIN updates
               THEN (IF f = "completed"
                     THEN (IF updates[f] THEN 1 ELSE 0)
                     ELSE updates[f])
             ELSE dbTasks[id][f]]]
  ELSE dbTasks

Database_updateTask(id, updates, ts) ==
  IF id \in DOMAIN dbTasks
  THEN [dbTasks EXCEPT ![id] =
          [f \in DOMAIN dbTasks[id] |->
             IF f = "updatedAt" THEN ts
             ELSE IF f \in TaskUpdateColumns /\ f \in DOMAIN updates
               THEN (IF f = "completed"
                     THEN (IF updates[f] THEN 1 ELSE 0)
                     ELSE updates[f])
             ELSE dbTasks[id][f]]]
  ELSE dbTasks

Database_deleteTask(id) == [i \in (DOMAIN dbTasks) \ {id} |-> dbTasks[i]]

\* SELECT * FROM tasks WHERE id = ?
Database_getTaskById(id) ==
  IF id \in DOMAIN dbTasks THEN RowTask(dbTasks[id]) ELSE NoRecord

\* a variant: ORDER BY "order" ASC, createdAt ASC
TaskOrderPrecedes_createdAtAsc(a, b) ==
  \/ a.order < b.order
  \/ a.order = b.order /\ a.createdAt < b.createdAt

\* ORDER BY "order" ASC, createdAt DESC
TaskOrderPrecedes(a, b) ==
  \/ a.order < b.order
  \/ a.order = b.order /\ a.createdAt > b.createdAt

\* SELECT * FROM tasks ORDER BY "order" ASC, createdAt DESC
Database_getAllTasks ==
  SortedSeqs({RowTask(r) : r \in Range(dbTasks)}, TaskOrderPrecedes)

\* SELECT * FROM tasks WHERE projectId = ? ORDER BY "order" ASC, createdAt DESC
Database_getTasksByProject(projectId) ==
  SortedSeqs({RowTask(r) : r \in {x \in Range(dbTasks) : x.projectId = projectId}},
             TaskOrderPrecedes)

DueDatePrecedes(a, b) == a.dueDate < b.dueDate

\* a variant: SELECT * FROM tasks WHERE dueDate < ? ORDER BY dueDate ASC
Database_getOverdueTasks_anyCompleted(ts) ==
  SortedSeqs({RowTask(r) : r \in {x \in Range(dbTasks) : x.dueDate < ts}},
             DueDatePrecedes)

\* SELECT * FROM tasks WHERE dueDate < ? AND completed = 0 ORDER BY dueDate ASC
Database_getOverdueTasks(ts) ==
  SortedSeqs({RowTask(r) : r \in {x \in Range(dbTasks) :
                                    x.dueDate < ts /\ x.completed = 0}},
             DueDatePrecedes)

\* UPDATE tasks SET "order" = ?, updatedAt = ? WHERE id = ?, for the first n
\* entries of the list
RECURSIVE Database_updateTasksOrder(_, _, _, _)
Database_updateTasksOrder(rows, list, n, ts) ==
  IF n = 0 THEN rows
  ELSE LET before == Database_updateTasksOrder(rows, list, n - 1, ts)
           e == list[n]
       IN IF e.id \in DOMAIN before
          THEN [before EXCEPT ![e.id] =
                  [before[e.id] EXCEPT !.order = e.order, !.updatedAt = ts]]
          ELSE before

\* for (const task of tasks) storageService.updateTask(task.id, {order}), for
\* the first n entries of the list
RECURSIVE Storage_updateTasksOrder(_, _, _, _)
Storage_updateTasksOrder(tasks, list, n, ts) ==
  IF n = 0 THEN tasks
  ELSE Storage_update(Storage_updateTasksOrder(tasks, list, n - 1, ts),
                      list[n].id, [order |-> list[n].order], ts)

\* ------------------------------------------------------------------ inputs
\* a Task as TaskService.createTask builds it: createdAt = updatedAt = now
BaseTask(id, ts) ==
  [id |-> id, projectId |-> "p1", title |-> "a", description |-> "",
   dueDate |-> 0, completed |-> FALSE, order |-> 0,
   createdAt |-> ts, updatedAt |-> ts]

WithField(record, name, value) ==
  [f \in (DOMAIN record) \cup {name} |-> IF f = name THEN value ELSE record[f]]

\* an id already stored by the seed, and a fresh one
TaskInputs(ts) ==
  UNION {{WithField(WithField(BaseTask(id, ts), "image", ""), "dueDate", 2),
          WithField(WithField(BaseTask(id, ts), "image", "data"), "order", 1)}
         : id \in {"t1", "t3"}}

\* Partial<Task>: its type admits every field of Task, id included
TaskUpdates ==
  {[completed |-> TRUE],
   [projectId |-> "p2", order |-> 2],
   [id |-> "t2"],
   [title |-> "b", dueDate |-> 2, image |-> "", createdAt |-> 1]}

\* { id, order }[]
OrderLists ==
  {<<[id |-> "t1", order |-> 2], [id |-> "t2", order |-> 0]>>,
   <<[id |-> "t3", order |-> 0], [id |-> "t1", order |-> 1]>>}

\* what an earlier session left in the platform's backend: a category, its
\* two projects and two tasks of the first project, created at time 0
SeedCategory ==
  [id |-> "c1", name |-> "Casa", color |-> "#FF6600", icon |-> "home-outline",
   createdAt |-> 0, updatedAt |-> 0]

SeedProject(id) ==
  [id |-> id, name |-> "Projeto", categoryId |-> "c1", createdAt |-> 0,
   updatedAt |-> 0]

SeedTasks == <<BaseTask("t1", 0), WithField(BaseTask("t2", 0), "order", 1)>>

\* ------------------------------------------------------- DataSyncService
\* The backend calls one router call makes, in order, and whether each threw:
\* if (this.useSQLite) { try { databaseService.X } catch { } } storageService.Y
Calls(dbOk, stThrows) ==
  IF ~useSQLite THEN <<[backend |-> "st", threw |-> stThrows]>>
  ELSE IF dbOk THEN <<[backend |-> "db", threw |-> FALSE]>>
  ELSE <<[backend |-> "db", threw |-> TRUE],
         [backend |-> "st", threw |-> stThrows]>>

\* A write call: dbThrows is this.db.run rejecting, stThrows is the storage
\* call rejecting.  A fault is drawn only for a call that is made.  seen is
\* history: the ids the getOverdueTasks call just before this one returned.
Write(op, id, arg, served, calls) ==
  /\ nOps' = nOps + 1
  /\ lastWrite' = [op |-> op, id |-> id, arg |-> arg, served |-> served,
                   calls |-> calls,
                   seen |-> IF lastRead.op = "getOverdueTasks"
                               /\ lastRead.served # "rejected"
                            THEN Ids(lastRead.result) ELSE {}]
  /\ lastRead' = NoCall
  /\ UNCHANGED <<useSQLite, isInitialized, now, dbCategories,
                 dbProjects, stCategories, stProjects, app>>

\* a variant: the router resolves when the document backend rejects
Served_resolves(dbOk, stThrows) == IF dbOk THEN "db" ELSE "st"

Served(dbOk, stThrows) ==
  IF dbOk THEN "db" ELSE IF stThrows THEN "rejected" ELSE "st"

DataSync_createTask(task, dbThrows, stThrows) ==
  LET dbOk == /\ useSQLite
              /\ Database_ensureInitialized
              /\ ~dbThrows
              /\ Database_createTask_ok(task)
  IN /\ nOps < MaxOps
     /\ dbThrows => Database_ensureInitialized
     /\ stThrows => ~dbOk
     /\ dbTasks' = IF dbOk THEN Database_createTask(task) ELSE dbTasks
     /\ stTasks' = IF ~dbOk /\ ~stThrows THEN Storage_add(stTasks, task) ELSE stTasks
     /\ Write("createTask", task.id, task, Served(dbOk, stThrows),
              Calls(dbOk, stThrows))

DataSync_updateTask(id, updates, dbThrows, stThrows) ==
  LET dbOk == /\ useSQLite
              /\ Database_ensureInitialized
              /\ ~dbThrows
              /\ Database_updateTask_ok(id, updates)
  IN /\ nOps < MaxOps
     /\ dbThrows => Database_ensureInitialized
     /\ stThrows => ~dbOk
     /\ dbTasks' = IF dbOk THEN Database_updateTask(id, updates, now) ELSE dbTasks
     /\ stTasks' = IF ~dbOk /\ ~stThrows
                   THEN Storage_update(stTasks, id, updates, now) ELSE stTasks
     /\ Write("updateTask", id, updates, Served(dbOk, stThrows),
              Calls(dbOk, stThrows))

DataSync_deleteTask(id, dbThrows, stThrows) ==
  LET dbOk == useSQLite /\ Database_ensureInitialized /\ ~dbThrows
  IN /\ nOps < MaxOps
     /\ dbThrows => Database_ensureInitialized
     /\ stThrows => ~dbOk
     /\ dbTasks' = IF dbOk THEN Database_deleteTask(id) ELSE dbTasks
     /\ stTasks' = IF ~dbOk /\ ~stThrows THEN Storage_delete(stTasks, id) ELSE stTasks
     /\ Write("deleteTask", id, <<>>, Served(dbOk, stThrows),
              Calls(dbOk, stThrows))

\* dbFailAt = k > 0: the k-th this.db.run of the loop rejects, after k - 1
\* rows were updated; stFailAt likewise for the storage loop.
DataSync_updateTasksOrder(list, dbFailAt, stFailAt) ==
  LET dbRuns == useSQLite /\ Database_ensureInitialized
      dbOk == dbRuns /\ dbFailAt = 0
      dbDone == IF dbFailAt = 0 THEN Len(list) ELSE dbFailAt - 1
      stDone == IF stFailAt = 0 THEN Len(list) ELSE stFailAt - 1
  IN /\ nOps < MaxOps
     /\ dbFailAt > 0 => dbRuns
     /\ stFailAt > 0 => ~dbOk
     /\ dbTasks' = IF dbRuns
                   THEN Database_updateTasksOrder(dbTasks, list, dbDone, now)
                   ELSE dbTasks
     /\ stTasks' = IF ~dbOk
                   THEN Storage_updateTasksOrder(stTasks, list, stDone, now)
                   ELSE stTasks
     /\ Write("updateTasksOrder", "", list, Served(dbOk, stFailAt > 0),
              Calls(dbOk, stFailAt > 0))

\* A read call and its result; at is the time of the call.
Read(op, arg, served, result, calls) ==
  /\ lastRead' = [op |-> op, arg |-> arg, served |-> served, result |-> result,
                  at |-> now, calls |-> calls]
  /\ UNCHANGED <<useSQLite, isInitialized, now, nOps, lastWrite,
                 stores, app>>

\* a variant: once a write has fallen back, reads go to the document backend
\* without trying the database
DataSync_read_sticky(op, arg, dbThrows, stThrows, dbResults, stResult) ==
  LET fellBack == lastWrite.op # "none" /\ lastWrite.served = "st"
      dbOk == useSQLite /\ Database_ensureInitialized /\ ~dbThrows /\ ~fellBack
      calls == IF fellBack THEN <<[backend |-> "st", threw |-> stThrows]>>
               ELSE Calls(dbOk, stThrows)
  IN /\ dbThrows => Database_ensureInitialized
     /\ stThrows => ~dbOk
     /\ IF dbOk
        THEN \E r \in dbResults : Read(op, arg, "db", r, calls)
        ELSE IF stThrows
        THEN Read(op, arg, "rejected", NoRecord, calls)
        ELSE Read(op, arg, "st", stResult, calls)

\* try { return await databaseService.X } catch { return await storageService.Y }
DataSync_read(op, arg, dbThrows, stThrows, dbResults, stResult) ==
  LET dbOk == useSQLite /\ Database_ensureInitialized /\ ~dbThrows
  IN /\ dbThrows => Database_ensureInitialized
     /\ stThrows => ~dbOk
     /\ IF dbOk
        THEN \E r \in dbResults : Read(op, arg, "db", r, Calls(dbOk, stThrows))
        ELSE IF stThrows
        THEN Read(op, arg, "rejected", NoRecord, Calls(dbOk, stThrows))
        ELSE Read(op, arg, "st", stResult, Calls(dbOk, stThrows))

DataSync_getAllTasks(dbThrows, stThrows) ==
  DataSync_read("getAllTasks", "", dbThrows, stThrows,
                Database_getAllTasks, stTasks)

DataSync_getTasksByProject(projectId, dbThrows, stThrows) ==
  DataSync_read("getTasksByProject", projectId, dbThrows, stThrows,
                Database_getTasksByProject(projectId),
                SelectSeq(stTasks, LAMBDA t : t.projectId = projectId))

DataSync_getOverdueTasks(dbThrows, stThrows) ==
  DataSync_read("getOverdueTasks", "", dbThrows, stThrows,
                Database_getOverdueTasks(now),
                SelectSeq(stTasks, LAMBDA t : ~t.completed /\ t.dueDate < now))

DataSync_getTaskById(id, dbThrows, stThrows) ==
  DataSync_read("getTaskById", id, dbThrows, stThrows,
                {Database_getTaskById(id)}, FindById(stTasks, id))

\* ------------------------------------------------------------ environment
\* DatabaseService.initializeDatabase() finishes: with the connection open
\* and the tables created, or in its catch block
initializeDatabase(ok) ==
  /\ useSQLite
  /\ ~isInitialized
  /\ isInitialized' = ok
  /\ UNCHANGED <<useSQLite, stores, now, nOps, lastWrite, lastRead, app>>

Tick ==
  /\ now < MaxTime
  /\ now' = now + 1
  /\ UNCHANGED <<useSQLite, isInitialized, stores, nOps,
                 lastWrite, lastRead, app>>

\* ------------------------------------------------------------------- spec
\* The document backend answers every call here; a rejecting storage call is
\* the subject of the double-failure claims.
StorageFaults == {FALSE}
StorageFailAts == {0}

\* The services as constructed at launch: on a native platform
\* initializeDatabase() is still awaiting the plugin; elsewhere it has set
\* isInitialized synchronously.  The backends hold what was persisted: nothing
\* (first launch) or the seed, in the backend the platform writes to.
Init ==
  /\ useSQLite \in BOOLEAN
  /\ isInitialized = ~useSQLite
  /\ \E seeded \in BOOLEAN :
       /\ dbCategories = IF seeded /\ useSQLite
                         THEN [i \in {"c1"} |-> SeedCategory] ELSE <<>>
       /\ dbProjects = IF seeded /\ useSQLite
                       THEN [i \in ProjectIds |-> SeedProject(i)] ELSE <<>>
       /\ dbTasks = IF seeded /\ useSQLite
                    THEN [i \in Ids(SeedTasks) |->
                            TaskRow(FindById(SeedTasks, i))] ELSE <<>>
       /\ stCategories = IF seeded /\ ~useSQLite THEN <<SeedCategory>> ELSE <<>>
       /\ stProjects = IF seeded /\ ~useSQLite
                       THEN <<SeedProject("p1"), SeedProject("p2")>> ELSE <<>>
       /\ stTasks = IF seeded /\ ~useSQLite THEN SeedTasks ELSE <<>>
       /\ seedExecuted = seeded
  /\ now = 0
  /\ nOps = 0
  /\ lastWrite = NoCall
  /\ lastRead = NoCall
  /\ pending = <<>>
  /\ tasksSubject = <<>>

Next ==
  \/ \E ok \in BOOLEAN : initializeDatabase(ok)
  \/ Tick
  \/ \E t \in TaskInputs(now), d \in BOOLEAN, s \in StorageFaults : DataSync_createTask(t, d, s)
  \/ \E id \in TaskIds, u \in TaskUpdates, d \in BOOLEAN, s \in StorageFaults :
       DataSync_updateTask(id, u, d, s)
  \/ \E id \in TaskIds, d \in BOOLEAN, s \in StorageFaults : DataSync_deleteTask(id, d, s)
  \/ \E l \in OrderLists, d \in 0..2, s \in StorageFailAts :
       d <= Len(l) /\ s <= Len(l) /\ DataSync_updateTasksOrder(l, d, s)
  \/ \E d \in BOOLEAN, s \in StorageFaults : DataSync_getAllTasks(d, s)
  \/ \E p \in ProjectIds, d \in BOOLEAN, s \in StorageFaults : DataSync_getTasksByProject(p, d, s)
  \/ \E d \in BOOLEAN, s \in StorageFaults : DataSync_getOverdueTasks(d, s)
  \/ \E id \in TaskIds, d \in BOOLEAN, s \in StorageFaults : DataSync_getTaskById(id, d, s)

Spec == Init /\ [][Next]_vars

\* ============================================== categories and projects
\* ------------------------------------------------------- DatabaseService
RemoveKeys(table, keys) == [k \in (DOMAIN table) \ keys |-> table[k]]

\* INSERT INTO <table> (<columns>) VALUES (...)
InsertRow(table, record, columns) ==
  [k \in (DOMAIN table) \cup {record.id} |->
     IF k = record.id THEN [f \in columns |-> record[f]] ELSE table[k]]

\* a variant: the UPDATE inserts a row when none has the id
UpdateRow_upsert(table, id, updates, columns, ts) ==
  [k \in (DOMAIN table) \cup {id} |->
     IF k = id THEN [id |-> id, updatedAt |-> ts] ELSE table[k]]

\* UPDATE <table> SET <the columns given in updates>, updatedAt = ? WHERE id = ?
UpdateRow(table, id, updates, columns, ts) ==
  IF id \in DOMAIN table
  THEN [table EXCEPT ![id] =
          [f \in DOMAIN table[id] |->
             IF f = "updatedAt" THEN ts
             ELSE IF f \in columns /\ f \in DOMAIN updates THEN updates[f]
             ELSE table[id][f]]]
  ELSE table

\* SELECT * FROM <table> WHERE id = ?
SelectById(table, id) == IF id \in DOMAIN table THEN table[id] ELSE NoRecord

CategoryColumns == {"id", "name", "color", "icon", "createdAt", "updatedAt"}

ProjectColumns == {"id", "name", "categoryId", "createdAt", "updatedAt"}

\* PRIMARY KEY(id)
Database_createCategory_ok(category) == category.id \notin DOMAIN dbCategories

Database_createCategory(category) ==
  InsertRow(dbCategories, category, CategoryColumns)

Database_updateCategory(id, updates, ts) ==
  UpdateRow(dbCategories, id, updates, {"name", "color", "icon"}, ts)

\* the projects ON DELETE CASCADE removes with category id
ProjectsOfCategory(id) == {k \in DOMAIN dbProjects : dbProjects[k].categoryId = id}

\* the tasks ON DELETE CASCADE removes with the projects
TasksOfProjects(projects) ==
  {k \in DOMAIN dbTasks : dbTasks[k].projectId \in projects}

\* PRIMARY KEY(id), FOREIGN KEY(categoryId)
Database_createProject_ok(project) ==
  /\ project.id \notin DOMAIN dbProjects
  /\ project.categoryId \in DOMAIN dbCategories

Database_createProject(project) ==
  InsertRow(dbProjects, project, ProjectColumns)

\* FOREIGN KEY(categoryId) of a matched row
Database_updateProject_ok(id, updates) ==
  (id \in DOMAIN dbProjects /\ "categoryId" \in DOMAIN updates)
     => updates.categoryId \in DOMAIN dbCategories

Database_updateProject(id, updates, ts) ==
  UpdateRow(dbProjects, id, updates, {"name", "categoryId"}, ts)

\* a variant: DELETE FROM projects WHERE id = ? without the cascade to tasks
Database_deleteProject_tasks_noCascade(id) == dbTasks

\* the tasks table after DELETE FROM projects WHERE id = ?
Database_deleteProject_tasks(id) ==
  RemoveKeys(dbTasks, TasksOfProjects({id} \cap DOMAIN dbProjects))

\* ------------------------------------------------------- DataSyncService
\* the record of a write call on categories or projects
WriteCall(op, id, arg, served, calls) ==
  /\ nOps' = nOps + 1
  /\ lastWrite' = [op |-> op, id |-> id, arg |-> arg, served |-> served,
                   calls |-> calls, seen |-> {}]
  /\ lastRead' = NoCall
  /\ UNCHANGED <<useSQLite, isInitialized, now, app>>

DataSync_createCategory(category, dbThrows, stThrows) ==
  LET dbOk == /\ Database_ensureInitialized
              /\ ~dbThrows
              /\ Database_createCategory_ok(category)
  IN /\ nOps < MaxOps
     /\ dbThrows => Database_ensureInitialized
     /\ stThrows => ~dbOk
     /\ dbCategories' = IF dbOk THEN Database_createCategory(category)
                        ELSE dbCategories
     /\ stCategories' = IF ~dbOk /\ ~stThrows
                        THEN Storage_add(stCategories, category) ELSE stCategories
     /\ UNCHANGED <<dbProjects, dbTasks, stProjects, stTasks>>
     /\ WriteCall("createCategory", category.id, category,
                  Served(dbOk, stThrows), Calls(dbOk, stThrows))

DataSync_updateCategory(id, updates, dbThrows, stThrows) ==
  LET dbOk == Database_ensureInitialized /\ ~dbThrows
  IN /\ nOps < MaxOps
     /\ dbThrows => Database_ensureInitialized
     /\ stThrows => ~dbOk
     /\ dbCategories' = IF dbOk THEN Database_updateCategory(id, updates, now)
                        ELSE dbCategories
     /\ stCategories' = IF ~dbOk /\ ~stThrows
                        THEN Storage_update(stCategories, id, updates, now)
                        ELSE stCategories
     /\ UNCHANGED <<dbProjects, dbTasks, stProjects, stTasks>>
     /\ WriteCall("updateCategory", id, updates,
                  Served(dbOk, stThrows), Calls(dbOk, stThrows))

DataSync_deleteCategory(id, dbThrows, stThrows) ==
  LET dbOk == Database_ensureInitialized /\ ~dbThrows
  IN /\ nOps < MaxOps
     /\ dbThrows => Database_ensureInitialized
     /\ stThrows => ~dbOk
     /\ dbCategories' = IF dbOk THEN RemoveKeys(dbCategories, {id})
                        ELSE dbCategories
     /\ dbProjects' = IF dbOk THEN RemoveKeys(dbProjects, ProjectsOfCategory(id))
                      ELSE dbProjects
     /\ dbTasks' = IF dbOk
                   THEN RemoveKeys(dbTasks, TasksOfProjects(ProjectsOfCategory(id)))
                   ELSE dbTasks
     /\ stCategories' = IF ~dbOk /\ ~stThrows
                        THEN Storage_delete(stCategories, id) ELSE stCategories
     /\ UNCHANGED <<stProjects, stTasks>>
     /\ WriteCall("deleteCategory", id, <<>>,
                  Served(dbOk, stThrows), Calls(dbOk, stThrows))

DataSync_createProject(project, dbThrows, stThrows) ==
  LET dbOk == /\ Database_ensureInitialized
              /\ ~dbThrows
              /\ Database_createProject_ok(project)
  IN /\ nOps < MaxOps
     /\ dbThrows => Database_ensureInitialized
     /\ stThrows => ~dbOk
     /\ dbProjects' = IF dbOk THEN Database_createProject(project) ELSE dbProjects
     /\ stProjects' = IF ~dbOk /\ ~stThrows
                      THEN Storage_add(stProjects, project) ELSE stProjects
     /\ UNCHANGED <<dbCategories, dbTasks, stCategories, stTasks>>
     /\ WriteCall("createProject", project.id, project,
                  Served(dbOk, stThrows), Calls(dbOk, stThrows))

DataSync_updateProject(id, updates, dbThrows, stThrows) ==
  LET dbOk == /\ Database_ensureInitialized
              /\ ~dbThrows
              /\ Database_updateProject_ok(id, updates)
  IN /\ nOps < MaxOps
     /\ dbThrows => Database_ensureInitialized
     /\ stThrows => ~dbOk
     /\ dbProjects' = IF dbOk THEN Database_updateProject(id, updates, now)
                      ELSE dbProjects
     /\ stProjects' = IF ~dbOk /\ ~stThrows
                      THEN Storage_update(stProjects, id, updates, now)
                      ELSE stProjects
     /\ UNCHANGED <<dbCategories, dbTasks, stCategories, stTasks>>
     /\ WriteCall("updateProject", id, updates,
                  Served(dbOk, stThrows), Calls(dbOk, stThrows))

\* ProjectService.deleteProject awaits this and reloads its projects$ list
DataSync_deleteProject(id, dbThrows, stThrows) ==
  LET dbOk == Database_ensureInitialized /\ ~dbThrows
  IN /\ nOps < MaxOps
     /\ dbThrows => Database_ensureInitialized
     /\ stThrows => ~dbOk
     /\ dbProjects' = IF dbOk THEN RemoveKeys(dbProjects, {id}) ELSE dbProjects
     /\ dbTasks' = IF dbOk THEN Database_deleteProject_tasks(id) ELSE dbTasks
     /\ stProjects' = IF ~dbOk /\ ~stThrows
                      THEN Storage_delete(stProjects, id) ELSE stProjects
     /\ UNCHANGED <<dbCategories, stCategories, stTasks>>
     /\ WriteCall("deleteProject", id, <<>>,
                  Served(dbOk, stThrows), Calls(dbOk, stThrows))

DataSync_getCategoryById(id, dbThrows, stThrows) ==
  DataSync_read("getCategoryById", id, dbThrows, stThrows,
                {SelectById(dbCategories, id)}, FindById(stCategories, id))

DataSync_getProjectById(id, dbThrows, stThrows) ==
  DataSync_read("getProjectById", id, dbThrows, stThrows,
                {SelectById(dbProjects, id)}, FindById(stProjects, id))

\* ------------------------------------------------------------ TaskService
\* Math.max(...existingTasks.map(t => t.order)), -1 for an empty list
MaxOrder(tasks) ==
  IF Len(tasks) = 0 THEN -1
  ELSE CHOOSE m \in {tasks[i].order : i \in 1..Len(tasks)} :
         \A i \in 1..Len(tasks) : tasks[i].order <= m

\* the Task createTask builds from its CreateTaskDto and the project's tasks
NewTask(data, id, existingTasks, ts) ==
  [f \in {"id", "projectId", "title", "description", "dueDate", "completed",
          "order", "createdAt", "updatedAt"} \cup ({"image"} \cap DOMAIN data) |->
     CASE f = "id" -> id
       [] f = "completed" -> FALSE
       [] f = "order" -> IF "order" \in DOMAIN data THEN data.order
                         ELSE MaxOrder(existingTasks) + 1
       [] f \in {"createdAt", "updatedAt"} -> ts
       [] OTHER -> data[f]]

\* generateId() returns an id no record has
FreshTaskIds == TaskIds \ (DOMAIN dbTasks \cup Ids(stTasks))

\* createTask(data): getTasksByProject through the router, then createTask
\* through the router; each of the two router calls may meet a database error
TaskService_createTask(data, id, dbThrowsRead, dbThrowsWrite) ==
  LET dbOkRead == Database_ensureInitialized /\ ~dbThrowsRead
  IN /\ id \in FreshTaskIds
     /\ dbThrowsRead => Database_ensureInitialized
     /\ \E existingTasks \in
             IF dbOkRead THEN Database_getTasksByProject(data.projectId)
             ELSE {SelectSeq(stTasks, LAMBDA t : t.projectId = data.projectId)} :
          DataSync_createTask(NewTask(data, id, existingTasks, now),
                              dbThrowsWrite, FALSE)

\* ------------------------------------------------------------------ inputs
CategoryInputs(ts) ==
  {[id |-> id, name |-> "Lazer", color |-> "#0066FF", icon |-> "game-controller",
    createdAt |-> ts, updatedAt |-> ts] : id \in CategoryIds}

CategoryUpdates == {[name |-> "Trabalho", color |-> "#00AA00"]}

ProjectInputs(ts) ==
  {[id |-> "p1", name |-> "Novo", categoryId |-> c, createdAt |-> ts,
    updatedAt |-> ts] : c \in CategoryIds}

ProjectUpdates == {[name |-> "b"], [categoryId |-> "c2"]}

\* CreateTaskDto without an order
CreateTaskDtos ==
  {[projectId |-> "p1", title |-> "a", description |-> "", dueDate |-> 0]}

\* ------------------------------------------------------------------- specs
\* the router calls on the three kinds; storageFaults says whether a call of
\* the document backend may reject
RouterNext(storageFaults) ==
  \/ \E ok \in BOOLEAN : initializeDatabase(ok)
  \/ \E c \in CategoryInputs(now), d \in BOOLEAN, s \in storageFaults :
       DataSync_createCategory(c, d, s)
  \/ \E id \in CategoryIds, u \in CategoryUpdates, d \in BOOLEAN, s \in storageFaults :
       DataSync_updateCategory(id, u, d, s)
  \/ \E id \in CategoryIds, d \in BOOLEAN, s \in storageFaults :
       DataSync_deleteCategory(id, d, s)
  \/ \E p \in ProjectInputs(now), d \in BOOLEAN, s \in storageFaults :
       DataSync_createProject(p, d, s)
  \/ \E id \in ProjectIds, u \in ProjectUpdates, d \in BOOLEAN, s \in storageFaults :
       DataSync_updateProject(id, u, d, s)
  \/ \E id \in ProjectIds, d \in BOOLEAN, s \in storageFaults :
       DataSync_deleteProject(id, d, s)
  \/ \E id \in {"t1", "t3"}, u \in TaskUpdates, d \in BOOLEAN, s \in storageFaults :
       DataSync_updateTask(id, u, d, s)
  \/ \E id \in {"t1", "t3"}, d \in BOOLEAN, s \in storageFaults :
       DataSync_deleteTask(id, d, s)
  \/ \E l \in OrderLists, d \in 0..2, s \in {0} \cup {2 : x \in storageFaults \ {FALSE}} :
       DataSync_updateTasksOrder(l, d, s)
  \/ \E id \in CategoryIds, d \in BOOLEAN, s \in storageFaults :
       DataSync_getCategoryById(id, d, s)
  \/ \E id \in ProjectIds, d \in BOOLEAN, s \in storageFaults :
       DataSync_getProjectById(id, d, s)
  \/ \E id \in {"t1", "t3"}, d \in BOOLEAN, s \in storageFaults :
       DataSync_getTaskById(id, d, s)
  \/ \E p \in {"p1"}, d \in BOOLEAN, s \in storageFaults :
       DataSync_getTasksByProject(p, d, s)
  \/ \E d \in BOOLEAN, s \in storageFaults : DataSync_getAllTasks(d, s)

\* the document backend answers every call; tasks are created by TaskService
EntitiesNext ==
  \/ RouterNext({FALSE})
  \/ Tick
  \/ \E data \in CreateTaskDtos, id \in TaskIds, dr \in BOOLEAN, dw \in BOOLEAN :
       nOps < MaxOps /\ TaskService_createTask(data, id, dr, dw)

SpecEntities == Init /\ [][EntitiesNext]_vars

\* a call of the document backend may reject; time stands still
SpecFaults == Init /\ [][RouterNext(BOOLEAN)]_vars

\* ================================================================= claims
TaskFields ==
  {"id", "projectId", "title", "description", "dueDate", "image", "completed",
   "order", "createdAt", "updatedAt"}

Field(record, f) == IF f \in DOMAIN record THEN record[f] ELSE Absent

\* the router call returned: it was served by one of the backends
Returned(call) == call.op # "none" /\ call.served \in {"db", "st"}

\* C1: a createTask that the router served from the document backend,
\* because the relational backend threw on that call, has the effect of a
\* createTask that needed no fallback: a later getTaskById of the router
\* returns the created record.
C1_FallbackEquivalence ==
  (/\ useSQLite
   /\ lastWrite.op = "createTask"
   /\ lastWrite.served = "st"
   /\ lastRead.op = "getTaskById"
   /\ lastRead.arg = lastWrite.id
   /\ Returned(lastRead))
  => lastRead.result # NoRecord

\* C2: a router read started after a router write has returned observes the
\* write, whichever backend served either: a created task is found, a
\* deleted task is not, an updated or reordered task shows the new values.
C2_ReadYourWrites ==
  (/\ Returned(lastWrite)
   /\ lastRead.op = "getTaskById"
   /\ Returned(lastRead))
  => /\ (lastWrite.op = "createTask" /\ lastRead.arg = lastWrite.id)
          => lastRead.result # NoRecord
     /\ (lastWrite.op = "deleteTask" /\ lastRead.arg = lastWrite.id)
          => lastRead.result = NoRecord
     /\ (/\ lastWrite.op = "updateTask"
         /\ lastRead.arg = lastWrite.id
         /\ "completed" \in DOMAIN lastWrite.arg
         /\ lastRead.result # NoRecord)
          => lastRead.result.completed = lastWrite.arg.completed
     /\ lastWrite.op = "updateTasksOrder"
          => \A i \in 1..Len(lastWrite.arg) :
               (lastRead.arg = lastWrite.arg[i].id /\ lastRead.result # NoRecord)
                 => lastRead.result.order = lastWrite.arg[i].order

\* the id is stored once in the backend that served the last write
StoredOnce(id) ==
  lastWrite.served = "st"
    => Cardinality({i \in 1..Len(stTasks) : stTasks[i].id = id}) = 1

\* no image: the property is absent, or null
NoImage(v) == v \in {Absent, Null}

\* C3: after createTask(t), with t.id not stored before, getTaskById(t.id)
\* served by the backend that stored t returns a record equal to t in every
\* field other than updatedAt (an absent image and a null image are taken
\* as equal).
C3_CreateGetRoundTrip ==
  (/\ lastWrite.op = "createTask"
   /\ Returned(lastWrite)
   /\ StoredOnce(lastWrite.id)
   /\ lastRead.op = "getTaskById"
   /\ lastRead.arg = lastWrite.id
   /\ lastRead.served = lastWrite.served)
  => /\ lastRead.result # NoRecord
     /\ \A f \in TaskFields \ {"updatedAt", "image"} :
          /\ f \in DOMAIN lastRead.result
          /\ lastRead.result[f] = lastWrite.arg[f]
     /\ \/ NoImage(Field(lastRead.result, "image"))
             /\ NoImage(Field(lastWrite.arg, "image"))
        \/ Field(lastRead.result, "image") = Field(lastWrite.arg, "image")

\* C4: after the router's deleteTask(id) has returned, the router's
\* getTaskById(id) returns null.
C4_DeleteThenGet ==
  (/\ lastWrite.op = "deleteTask"
   /\ Returned(lastWrite)
   /\ lastRead.op = "getTaskById"
   /\ lastRead.arg = lastWrite.id
   /\ Returned(lastRead))
  => lastRead.result = NoRecord

\* ---------------------------------------------------------------- updates
\* this step is an updateTask of a stored task, served by backend b
UpdateStep(b) ==
  /\ nOps' # nOps
  /\ lastWrite'.op = "updateTask"
  /\ lastWrite'.served = b
  /\ IF b = "db" THEN lastWrite'.id \in DOMAIN dbTasks
     ELSE FindIndex(stTasks, lastWrite'.id) # 0

\* the task before and after the step, in backend b
TaskBefore(b) ==
  IF b = "db" THEN RowTask(dbTasks[lastWrite'.id])
  ELSE stTasks[FindIndex(stTasks, lastWrite'.id)]

TaskAfter(b) ==
  IF b = "db" THEN RowTask(dbTasks'[lastWrite'.id])
  ELSE stTasks'[FindIndex(stTasks, lastWrite'.id)]

\* the fields of u among applied take u's values, every other field but
\* updatedAt keeps its value, and updatedAt is not earlier than the call
Frame(before, after, u, applied) ==
  /\ \A f \in applied \cap DOMAIN u : Field(after, f) = u[f]
  /\ \A f \in TaskFields \ ((applied \cap DOMAIN u) \cup {"updatedAt"}) :
       Field(after, f) = Field(before, f)
  /\ after.updatedAt >= now

\* C5 (as stated): an update(id, u) of an existing task gives, on both
\* backends, every field present in u the value u has for it, keeps every
\* other field except updatedAt, and sets updatedAt to a time not earlier
\* than the call.
C5_PartialUpdateFrame ==
  [][\A b \in {"db", "st"} :
       UpdateStep(b) =>
         Frame(TaskBefore(b), TaskAfter(b), lastWrite'.arg,
               TaskFields \ {"updatedAt"})]_vars

\* C5 (amended): on the relational backend only projectId, title,
\* description, dueDate, image, completed and order are taken from u (an id
\* or createdAt in u is ignored); on the document backend every field of u
\* is taken; on both every other field except updatedAt keeps its value,
\* updatedAt is not earlier than the call, and no other task changes.
C5_UpdateFrameByBackend ==
  [][/\ UpdateStep("db") =>
          /\ Frame(TaskBefore("db"), TaskAfter("db"), lastWrite'.arg,
                   {"projectId", "title", "description", "dueDate", "image",
                    "completed", "order"})
          /\ DOMAIN dbTasks' = DOMAIN dbTasks
          /\ \A k \in DOMAIN dbTasks \ {lastWrite'.id} : dbTasks'[k] = dbTasks[k]
          /\ stTasks' = stTasks
     /\ UpdateStep("st") =>
          /\ Frame(TaskBefore("st"), TaskAfter("st"), lastWrite'.arg,
                   TaskFields \ {"updatedAt"})
          /\ Len(stTasks') = Len(stTasks)
          /\ \A i \in 1..Len(stTasks) :
               i # FindIndex(stTasks, lastWrite'.id) => stTasks'[i] = stTasks[i]
          /\ dbTasks' = dbTasks]_vars

\* an update with a createdAt was served by the relational backend at a later
\* time: title and updatedAt changed, createdAt did not
C5_Witness ==
  /\ lastWrite.op = "updateTask"
  /\ lastWrite.served = "db"
  /\ "createdAt" \in DOMAIN lastWrite.arg
  /\ lastWrite.id \in DOMAIN dbTasks
  /\ dbTasks[lastWrite.id].title = lastWrite.arg.title
  /\ dbTasks[lastWrite.id].createdAt # lastWrite.arg.createdAt
  /\ dbTasks[lastWrite.id].updatedAt > dbTasks[lastWrite.id].createdAt

\* C6: no router operation other than a delete changes the id of a stored
\* record: across every step that is not a deleteTask, each stored task
\* is still stored, in its place, under the same id.
C6_IdImmutable ==
  [][(nOps' # nOps /\ lastWrite'.op = "deleteTask")
     \/ (/\ \A k \in DOMAIN dbTasks :
              k \in DOMAIN dbTasks' /\ dbTasks'[k].id = dbTasks[k].id
         /\ Len(stTasks') >= Len(stTasks)
         /\ \A i \in 1..Len(stTasks) : stTasks'[i].id = stTasks[i].id)]_vars

\* ------------------------------------------------------------------ lists
\* the tasks the backend that served the last read holds, one per stored
\* record: the rows by key, the list entries by position
StoredKeys ==
  IF lastRead.served = "db" THEN DOMAIN dbTasks ELSE 1..Len(stTasks)

StoredTask(k) ==
  IF lastRead.served = "db" THEN RowTask(dbTasks[k]) ELSE stTasks[k]

\* the result holds exactly the stored tasks that satisfy Keep, each once
ExactlyThose(result, Keep(_)) ==
  /\ Range(result) = {StoredTask(k) : k \in {x \in StoredKeys : Keep(StoredTask(x))}}
  /\ Len(result) = Cardinality({x \in StoredKeys : Keep(StoredTask(x))})

\* C7: getOverdueTasks returns exactly the tasks, of the backend that
\* served the call, with completed = false and dueDate earlier than the time
\* of the call: no completed task, and every uncompleted task that is past
\* its dueDate.
C7_OverdueExact ==
  (lastRead.op = "getOverdueTasks" /\ Returned(lastRead))
  => /\ ExactlyThose(lastRead.result,
                     LAMBDA t : t.completed = FALSE /\ t.dueDate < lastRead.at)
     /\ \A i \in 1..Len(lastRead.result) :
          /\ lastRead.result[i].completed = FALSE
          /\ lastRead.result[i].dueDate < lastRead.at

\* the relational backend answered with one task while it holds a completed
\* task that is past its dueDate
C7_Witness ==
  /\ lastRead.op = "getOverdueTasks"
  /\ lastRead.served = "db"
  /\ Len(lastRead.result) = 1
  /\ \E k \in DOMAIN dbTasks :
       dbTasks[k].completed = 1 /\ dbTasks[k].dueDate < lastRead.at

\* C8: a task that getOverdueTasks returned, and that updateTask(id,
\* {completed: true}) then marked completed, is not in the result of a later
\* getOverdueTasks.
C8_CompletedLeavesOverdue ==
  (/\ lastWrite.op = "updateTask"
   /\ Returned(lastWrite)
   /\ lastWrite.id \in lastWrite.seen
   /\ "completed" \in DOMAIN lastWrite.arg
   /\ lastWrite.arg.completed
   /\ lastRead.op = "getOverdueTasks"
   /\ Returned(lastRead))
  => lastWrite.id \notin Ids(lastRead.result)

ProjectPositions(p) == {i \in 1..Len(stTasks) : stTasks[i].projectId = p}

C10_ReorderVisible ==
  (/\ lastWrite.op = "updateTasksOrder"
   /\ Returned(lastWrite)
   /\ lastRead.op = "getTasksByProject"
   /\ lastRead.served = lastWrite.served)
  => \A i, j \in 1..Len(lastWrite.arg) :
       (/\ lastWrite.arg[i].order < lastWrite.arg[j].order
        /\ FindIndex(lastRead.result, lastWrite.arg[i].id) # 0
        /\ FindIndex(lastRead.result, lastWrite.arg[j].id) # 0)
       => FindIndex(lastRead.result, lastWrite.arg[i].id)
            < FindIndex(lastRead.result, lastWrite.arg[j].id)

\* ------------------------------------------------------- errors, atomicity
\* this step is the router write op
WriteStep(op) == nOps' # nOps /\ lastWrite'.op = op

\* C11: createTask with an id that is already stored rejects with the
\* duplicate-key error, storing nothing, when the relational backend is in
\* use, and appends a second record with that id when the document backend is.
C11_DuplicateIdCreate ==
  [][WriteStep("createTask") =>
       /\ (useSQLite /\ isInitialized /\ lastWrite'.id \in DOMAIN dbTasks) =>
            /\ lastWrite'.served = "rejected"
            /\ dbTasks' = dbTasks
            /\ stTasks' = stTasks
       /\ (~useSQLite /\ lastWrite'.id \in Ids(stTasks)) =>
            /\ lastWrite'.served = "st"
            /\ stTasks' = Append(stTasks, lastWrite'.arg)]_vars

\* C13: updateTasksOrder(list) that reaches the relational backend
\* updates the order of every listed row or of none, also when it fails
\* part-way and the router falls back to the document backend.
C13_ReorderAtomic ==
  [][(WriteStep("updateTasksOrder") /\ useSQLite /\ isInitialized) =>
       \/ \A i \in 1..Len(lastWrite'.arg) :
            lastWrite'.arg[i].id \in DOMAIN dbTasks =>
              dbTasks'[lastWrite'.arg[i].id].order = lastWrite'.arg[i].order
       \/ dbTasks' = dbTasks]_vars

\* ----------------------------------------------------------- missing ids
\* the ids of a kind that backend b stores
StoredIds(kind, b) ==
  CASE kind = "Category" -> IF b = "db" THEN DOMAIN dbCategories ELSE Ids(stCategories)
    [] kind = "Project" -> IF b = "db" THEN DOMAIN dbProjects ELSE Ids(stProjects)
    [] kind = "Task" -> IF b = "db" THEN DOMAIN dbTasks ELSE Ids(stTasks)

\* this step is update<kind> or delete<kind> of an id that the backend the
\* call reaches last does not store
MissingIdStep(kind) ==
  /\ nOps' # nOps
  /\ lastWrite'.op \in {"update" \o kind, "delete" \o kind}
  /\ lastWrite'.id \notin
       StoredIds(kind, lastWrite'.calls[Len(lastWrite'.calls)].backend)

\* C12: update(id, u) and delete(id), of every kind, with an id that the
\* backend serving the call does not store return without error and leave
\* every record of every kind, in both backends, as it was.
C12_MissingIdNoOp ==
  [][\A kind \in {"Category", "Project", "Task"} :
       MissingIdStep(kind) =>
         /\ lastWrite'.served \in {"db", "st"}
         /\ stores' = stores]_vars

\* the relational backend, holding records, served the update of a category
\* it does not hold
C12_Witness ==
  /\ lastWrite.op = "updateCategory"
  /\ lastWrite.served = "db"
  /\ lastWrite.id \notin DOMAIN dbCategories
  /\ DOMAIN dbCategories # {}
  /\ DOMAIN dbTasks # {}

\* ------------------------------------------------------------- fallback
\* every backend call the router call made threw
AllThrew(call) == \A i \in 1..Len(call.calls) : call.calls[i].threw

\* C14: a router call whose relational call threw and whose document
\* call threw too, or whose only call, on a non-native platform, was a
\* document call that threw, rejects; it resolves only when one of its backend
\* calls returned.
C14_DoubleFailureRejects ==
  \A call \in {lastWrite, lastRead} :
    call.op # "none" =>
      /\ AllThrew(call) => call.served = "rejected"
      /\ call.served \in {"db", "st"} =>
           /\ ~call.calls[Len(call.calls)].threw
           /\ call.calls[Len(call.calls)].backend = call.served

\* createCategory on a native platform: the database call threw, the storage
\* call threw, the router call rejected
C14_Witness ==
  /\ lastWrite.op = "createCategory"
  /\ useSQLite
  /\ Len(lastWrite.calls) = 2
  /\ AllThrew(lastWrite)
  /\ lastWrite.served = "rejected"

\* ---------------------------------------------------------------- cascade
\* the last write was deleteProject and the last read, served by backend b,
\* lists tasks: those of the deleted project, or all
ReadAfterDeleteProject(b) ==
  /\ lastWrite.op = "deleteProject"
  /\ Returned(lastWrite)
  /\ \/ lastRead.op = "getTasksByProject" /\ lastRead.arg = lastWrite.id
     \/ lastRead.op = "getAllTasks"
  /\ lastRead.served = b

\* C15: deleteProject(p) served by the relational backend leaves no task
\* with projectId = p in that backend; served by the document backend it
\* leaves every task stored, and the document backend's tasks of p are still
\* returned by getTasksByProject(p) and getAllTasks.
C15_CascadeByBackend ==
  /\ [][WriteStep("deleteProject") =>
          /\ lastWrite'.served = "db" =>
               /\ \A k \in DOMAIN dbTasks' : dbTasks'[k].projectId # lastWrite'.id
               /\ lastWrite'.id \notin DOMAIN dbProjects'
               /\ stTasks' = stTasks
          /\ lastWrite'.served = "st" =>
               /\ stTasks' = stTasks
               /\ dbTasks' = dbTasks
               /\ lastWrite'.id \notin Ids(stProjects')]_vars
  /\ [](ReadAfterDeleteProject("st") /\ lastWrite.served = "st" =>
          \A i \in 1..Len(stTasks) :
            stTasks[i].projectId = lastWrite.id =>
              \E j \in 1..Len(lastRead.result) : lastRead.result[j] = stTasks[i])

\* the document backend deleted a project and still returns a task of it
C15_Witness ==
  /\ ReadAfterDeleteProject("st")
  /\ lastWrite.served = "st"
  /\ lastWrite.id \notin Ids(stProjects)
  /\ lastRead.op = "getTasksByProject"
  /\ Len(lastRead.result) > 0

\* C16: after ProjectService.deleteProject(p) has returned, neither
\* getTasksByProject(p) nor getAllTasks returns a task with projectId = p.
C16_DeletePromise ==
  (\E b \in {"db", "st"} : ReadAfterDeleteProject(b))
  => \A j \in 1..Len(lastRead.result) :
       lastRead.result[j].projectId # lastWrite.id

\* ----------------------------------------------------------- default order
\* the orders of the tasks of project p that backend b stores
ProjectOrders(p, b) ==
  IF b = "db"
  THEN {dbTasks[k].order : k \in {x \in DOMAIN dbTasks : dbTasks[x].projectId = p}}
  ELSE {stTasks[i].order : i \in {x \in 1..Len(stTasks) : stTasks[x].projectId = p}}

\* C17: TaskService.createTask without an explicit order stores the task
\* with an order greater than the order of every task that the backend
\* storing it already holds for the project: the greatest of them plus one.
C17_DefaultOrder ==
  [][(WriteStep("createTask") /\ lastWrite'.served \in {"db", "st"}) =>
       /\ \A o \in ProjectOrders(lastWrite'.arg.projectId, lastWrite'.served) :
            lastWrite'.arg.order > o
       /\ ProjectOrders(lastWrite'.arg.projectId, lastWrite'.served) # {} =>
            (lastWrite'.arg.order - 1)
              \in ProjectOrders(lastWrite'.arg.projectId, lastWrite'.served)]_vars

\* ---------------------------------------------------------------- getById
KindOf(op) ==
  CASE op = "getCategoryById" -> "Category"
    [] op = "getProjectById" -> "Project"
    [] op = "getTaskById" -> "Task"

\* C18: getById(id), of every kind, on either backend and on the
\* fallback path, resolves: to null for an id that is not stored, and to the
\* record with that id for an id that is stored.
C18_GetByIdResolves ==
  lastRead.op \in {"getCategoryById", "getProjectById", "getTaskById"} =>
    /\ lastRead.served \in {"db", "st"}
    /\ IF lastRead.arg \in StoredIds(KindOf(lastRead.op), "db")
                             \cup StoredIds(KindOf(lastRead.op), "st")
       THEN lastRead.result # NoRecord /\ lastRead.result.id = lastRead.arg
       ELSE lastRead.result = NoRecord

\* --------------------------------------------------------------- one shot
\* the backend calls of one router call: the database once; or the database
\* once, throwing, and then the storage once; or, off native, the storage once
OneShot(call) ==
  \/ /\ Len(call.calls) = 1
     /\ call.calls[1].backend = "db"
     /\ ~call.calls[1].threw
  \/ /\ Len(call.calls) = 2
     /\ call.calls[1].backend = "db"
     /\ call.calls[1].threw
     /\ call.calls[2].backend = "st"
  \/ /\ Len(call.calls) = 1
     /\ call.calls[1].backend = "st"
     /\ ~useSQLite

\* the document backend's list that a create<kind> appends to
StorageListOf(op) ==
  CASE op = "createCategory" -> <<stCategories, stCategories'>>
    [] op = "createProject" -> <<stProjects, stProjects'>>
    [] op = "createTask" -> <<stTasks, stTasks'>>

\* C19: a router call tries the relational backend at most once and runs
\* the document backend's operation only after that attempt threw, once: a
\* call the relational backend served leaves the document backend untouched,
\* and a create served by the document backend appends its record once.
C19_OneShotFallback ==
  /\ [](\A call \in {lastWrite, lastRead} : call.op # "none" => OneShot(call))
  /\ [][nOps' # nOps =>
          /\ lastWrite'.served = "db" =>
               <<stCategories, stProjects, stTasks>>'
                 = <<stCategories, stProjects, stTasks>>
          /\ lastWrite'.served = "rejected" /\ lastWrite'.op # "updateTasksOrder" =>
               stores' = stores
          /\ (/\ lastWrite'.served = "st"
              /\ lastWrite'.op \in {"createCategory", "createProject", "createTask"}) =>
               StorageListOf(lastWrite'.op)[2]
                 = Append(StorageListOf(lastWrite'.op)[1], lastWrite'.arg)]_vars

\* on a native platform createCategory's database call threw and the storage
\* call stored the category, once
C19_Witness ==
  /\ lastWrite.op = "createCategory"
  /\ useSQLite
  /\ lastWrite.served = "st"
  /\ Len(lastWrite.calls) = 2
  /\ Len(stCategories) = 1
  /\ stCategories[1] = lastWrite.arg

\* ------------------------------------------------------ backend selection
\* C20: useSQLite never changes; while it is false no router call calls
\* DatabaseService and the relational store stays as it is; while it is true
\* every router call calls DatabaseService first, also after earlier calls
\* have failed.
C20_SelectionFixed ==
  /\ [][useSQLite' = useSQLite]_vars
  /\ [][~useSQLite => <<dbCategories, dbProjects, dbTasks>>'
                        = <<dbCategories, dbProjects, dbTasks>>]_vars
  /\ [](\A call \in {lastWrite, lastRead} :
          call.op # "none" =>
            IF useSQLite THEN call.calls[1].backend = "db"
            ELSE \A i \in 1..Len(call.calls) : call.calls[i].backend # "db")

\* on a native platform a write fell back to the document backend, and the
\* read after it was tried on, and served by, the database
C20_Witness ==
  /\ useSQLite
  /\ lastWrite.op # "none"
  /\ lastWrite.served = "st"
  /\ lastWrite.calls[1].threw
  /\ lastRead.op # "none"
  /\ lastRead.served = "db"
  /\ lastRead.calls[1].backend = "db"

\* --------------------------------------------------------------- getAllTasks
\* list is what is left of whole after some entries were taken out
RECURSIVE IsSubsequence(_, _)
IsSubsequence(list, whole) ==
  IF Len(list) = 0 THEN TRUE
  ELSE IF Len(whole) = 0 THEN FALSE
  ELSE IF Head(list) = Head(whole) THEN IsSubsequence(Tail(list), Tail(whole))
  ELSE IsSubsequence(list, Tail(whole))

\* the router's task writes and getAllTasks
OrderNext ==
  \/ \E ok \in BOOLEAN : initializeDatabase(ok)
  \/ Tick
  \/ \E t \in TaskInputs(now), d \in BOOLEAN : DataSync_createTask(t, d, FALSE)
  \/ \E id \in TaskIds, u \in TaskUpdates, d \in BOOLEAN :
       DataSync_updateTask(id, u, d, FALSE)
  \/ \E id \in TaskIds, d \in BOOLEAN : DataSync_deleteTask(id, d, FALSE)
  \/ \E l \in OrderLists, d \in 0..2 : DataSync_updateTasksOrder(l, d, 0)
  \/ \E d \in BOOLEAN : DataSync_getAllTasks(d, FALSE)

SpecOrder == Init /\ [][OrderNext]_vars

\* C21: getAllTasks served by the relational backend returns its tasks by
\* order ascending, equal orders by createdAt descending; served by the
\* document backend it returns the stored list, in which a create appends, a
\* delete only takes entries out, and an update or a reorder changes records
\* where they stand.
C21_GetAllTasksOrder ==
  /\ []((lastRead.op = "getAllTasks" /\ Returned(lastRead)) =>
          /\ ExactlyThose(lastRead.result, LAMBDA t : TRUE)
          /\ lastRead.served = "db" =>
               \A i, j \in 1..Len(lastRead.result) :
                 i < j =>
                   \/ lastRead.result[i].order < lastRead.result[j].order
                   \/ /\ lastRead.result[i].order = lastRead.result[j].order
                      /\ lastRead.result[i].createdAt >= lastRead.result[j].createdAt
          /\ lastRead.served = "st" => lastRead.result = stTasks)
  /\ [][nOps' # nOps =>
          CASE lastWrite'.op = "createTask" ->
                 stTasks' \in {stTasks, Append(stTasks, lastWrite'.arg)}
            [] lastWrite'.op = "deleteTask" -> IsSubsequence(stTasks', stTasks)
            [] lastWrite'.op = "updateTask" ->
                 /\ Len(stTasks') = Len(stTasks)
                 /\ \A i \in 1..Len(stTasks) :
                      i # FindIndex(stTasks, lastWrite'.id) => stTasks'[i] = stTasks[i]
            [] lastWrite'.op = "updateTasksOrder" ->
                 /\ Len(stTasks') = Len(stTasks)
                 /\ \A i \in 1..Len(stTasks) :
                      \/ stTasks'[i] = stTasks[i]
                      \/ /\ stTasks'[i].id = stTasks[i].id
                         /\ stTasks'[i].createdAt = stTasks[i].createdAt
            [] OTHER -> stTasks' = stTasks]_vars

\* the document backend returned, after a reorder, the task of the greater
\* order first
C21_Witness ==
  /\ lastWrite.op = "updateTasksOrder"
  /\ lastWrite.served = "st"
  /\ lastRead.op = "getAllTasks"
  /\ lastRead.served = "st"
  /\ Len(lastRead.result) >= 2
  /\ lastRead.result[1].order > lastRead.result[2].order

\* ==================================================================== seed
MaxLaunches == 2

CategoryIdPool == <<"c1", "c2", "c3", "c4", "c5", "c6">>
ProjectIdPool == <<"p1", "p2", "p3">>
TaskIdPool == <<"t1", "t2", "t3">>

\* generateId(): an id no stored record has, here the first such of the pool
CanGenerateId(pool, used) == \E i \in 1..Len(pool) : pool[i] \notin used

generateId(pool, used) ==
  pool[CHOOSE i \in 1..Len(pool) :
         pool[i] \notin used /\ \A j \in 1..(i - 1) : pool[j] \in used]

\* two of the five seed categories
categoriesData ==
  <<[name |-> "Pessoal", color |-> "#8B0000", icon |-> "person-outline"],
    [name |-> "Trabalho", color |-> "#0066CC", icon |-> "briefcase-outline"]>>

\* one of the four seed projects; categoryId: categoryIds[1] || categoryIds[0]
projectsData == <<[name |-> "Tarefas do Trabalho", category |-> 2]>>

\* one of the eight seed tasks; projectId: projectIds[0] || projectIds[0],
\* dueDate: tomorrow
tasksData ==
  <<[title |-> "Reuniao de equipa", description |-> "Reuniao semanal",
     dueIn |-> 1, project |-> 1]>>

\* list[i - 1] || list[0] for a list that is not empty
IndexOrFirst(list, i) == IF i <= Len(list) THEN list[i] ELSE list[1]

\* the frame of seedIfNeeded: the loop it is in, the index in the loop, the
\* ids collected; failed and alreadyExecuted are history: a create of this run
\* threw, the run returned at the flag; launch counts the launches of the app
SeedFrame(pc, launch) ==
  [pc |-> pc, k |-> 1, categoryIds |-> <<>>, projectIds |-> <<>>,
   failed |-> FALSE, alreadyExecuted |-> FALSE, launch |-> launch]

\* a variant: the flag is never read as set
hasSeedBeenExecuted_never == FALSE

\* getSetting('seedExecuted', false) ?? false
hasSeedBeenExecuted == seedExecuted

seedIfNeeded ==
  /\ pending.seed.pc = "seedIfNeeded"
  /\ pending' = [seed |->
       IF hasSeedBeenExecuted
       THEN [SeedFrame("done", pending.seed.launch) EXCEPT !.alreadyExecuted = TRUE]
       ELSE SeedFrame("createCategories", pending.seed.launch)]
  /\ UNCHANGED <<useSQLite, isInitialized, stores, now, nOps, lastWrite,
                 lastRead, seedExecuted, tasksSubject>>

\* the frame after the create of entry k of a loop over data: id is pushed
\* to ids when the create resolved; after the last entry the loop ends, and
\* with no id collected the loops that follow return at once
SeedLoopStep(frame, data, ids, id, threw, nextLoop) ==
  LET collected == IF threw THEN frame[ids] ELSE Append(frame[ids], id)
      f == [frame EXCEPT ![ids] = collected, !.failed = @ \/ threw]
  IN IF frame.k < Len(data) THEN [f EXCEPT !.k = @ + 1]
     ELSE [f EXCEPT !.k = 1,
                    !.pc = IF Len(collected) = 0 THEN "markSeedAsExecuted"
                           ELSE nextLoop]

\* createCategories(): one turn of its loop, CategoryService.createCategory
\* through the router; stThrows is the storage call rejecting
createCategories(stThrows) ==
  LET used == (DOMAIN dbCategories) \cup Ids(stCategories)
      id == generateId(CategoryIdPool, used)
      data == categoriesData[pending.seed.k]
      category == [id |-> id, name |-> data.name, color |-> data.color,
                   icon |-> data.icon, createdAt |-> now, updatedAt |-> now]
      dbOk == Database_ensureInitialized /\ Database_createCategory_ok(category)
  IN /\ pending.seed.pc = "createCategories"
     /\ CanGenerateId(CategoryIdPool, used)
     /\ stThrows => ~dbOk
     /\ dbCategories' = IF dbOk THEN Database_createCategory(category)
                        ELSE dbCategories
     /\ stCategories' = IF ~dbOk /\ ~stThrows
                        THEN Storage_add(stCategories, category) ELSE stCategories
     /\ pending' = [seed |-> SeedLoopStep(pending.seed, categoriesData,
                                          "categoryIds", id, ~dbOk /\ stThrows,
                                          "createProjects")]
     /\ UNCHANGED <<useSQLite, isInitialized, dbProjects, dbTasks, stProjects,
                    stTasks, now, nOps, lastWrite, lastRead, seedExecuted,
                    tasksSubject>>

\* createProjects(categoryIds): one turn of its loop
createProjects(stThrows) ==
  LET used == (DOMAIN dbProjects) \cup Ids(stProjects)
      id == generateId(ProjectIdPool, used)
      data == projectsData[pending.seed.k]
      project == [id |-> id, name |-> data.name,
                  categoryId |-> IndexOrFirst(pending.seed.categoryIds, data.category),
                  createdAt |-> now, updatedAt |-> now]
      dbOk == Database_ensureInitialized /\ Database_createProject_ok(project)
  IN /\ pending.seed.pc = "createProjects"
     /\ CanGenerateId(ProjectIdPool, used)
     /\ stThrows => ~dbOk
     /\ dbProjects' = IF dbOk THEN Database_createProject(project) ELSE dbProjects
     /\ stProjects' = IF ~dbOk /\ ~stThrows
                      THEN Storage_add(stProjects, project) ELSE stProjects
     /\ pending' = [seed |-> SeedLoopStep(pending.seed, projectsData,
                                          "projectIds", id, ~dbOk /\ stThrows,
                                          "createTasks")]
     /\ UNCHANGED <<useSQLite, isInitialized, dbCategories, dbTasks,
                    stCategories, stTasks, now, nOps, lastWrite, lastRead,
                    seedExecuted, tasksSubject>>

\* createTasks(projectIds): one turn of its loop, TaskService.createTask
createTasks(stThrows) ==
  LET used == (DOMAIN dbTasks) \cup Ids(stTasks)
      id == generateId(TaskIdPool, used)
      data == tasksData[pending.seed.k]
      dto == [projectId |-> IndexOrFirst(pending.seed.projectIds, data.project),
              title |-> data.title, description |-> data.description,
              dueDate |-> now + data.dueIn]
  IN /\ pending.seed.pc = "createTasks"
     /\ CanGenerateId(TaskIdPool, used)
     /\ \E existingTasks \in
             IF Database_ensureInitialized
             THEN Database_getTasksByProject(dto.projectId)
             ELSE {SelectSeq(stTasks, LAMBDA t : t.projectId = dto.projectId)} :
          LET task == NewTask(dto, id, existingTasks, now)
              dbOk == Database_ensureInitialized /\ Database_createTask_ok(task)
          IN /\ stThrows => ~dbOk
             /\ dbTasks' = IF dbOk THEN Database_createTask(task) ELSE dbTasks
             /\ stTasks' = IF ~dbOk /\ ~stThrows
                           THEN Storage_add(stTasks, task) ELSE stTasks
             /\ pending' = [seed |-> SeedLoopStep(pending.seed, tasksData,
                                                  "projectIds", id, ~dbOk /\ stThrows,
                                                  "markSeedAsExecuted")]
     /\ UNCHANGED <<useSQLite, isInitialized, dbCategories, dbProjects,
                    stCategories, stProjects, now, nOps, lastWrite, lastRead,
                    seedExecuted, tasksSubject>>

\* seedDatabase() has returned: setSetting('seedExecuted', true); a
\* rejection is caught by seedIfNeeded
markSeedAsExecuted(stThrows) ==
  /\ pending.seed.pc = "markSeedAsExecuted"
  /\ seedExecuted' = IF stThrows THEN seedExecuted ELSE TRUE
  /\ pending' = [seed |-> [pending.seed EXCEPT !.pc = "done"]]
  /\ UNCHANGED <<useSQLite, isInitialized, stores, now, nOps, lastWrite,
                 lastRead, tasksSubject>>

\* setSetting('seedExecuted', false)
resetSeed ==
  /\ pending.seed.pc = "done"
  /\ seedExecuted
  /\ seedExecuted' = FALSE
  /\ UNCHANGED <<useSQLite, isInitialized, stores, now, nOps, lastWrite,
                 lastRead, pending, tasksSubject>>

\* the app is launched again: the services are constructed anew over what
\* the stores and the settings hold
AppComponent_ngOnInit ==
  /\ pending.seed.pc = "done"
  /\ pending.seed.launch < MaxLaunches
  /\ isInitialized' = ~useSQLite
  /\ pending' = [seed |-> SeedFrame("seedIfNeeded", pending.seed.launch + 1)]
  /\ UNCHANGED <<useSQLite, stores, now, nOps, lastWrite, lastRead,
                 seedExecuted, tasksSubject>>

\* the first launch of a fresh install
SeedInit ==
  /\ useSQLite \in BOOLEAN
  /\ isInitialized = ~useSQLite
  /\ dbCategories = <<>>
  /\ dbProjects = <<>>
  /\ dbTasks = <<>>
  /\ stCategories = <<>>
  /\ stProjects = <<>>
  /\ stTasks = <<>>
  /\ now = 0
  /\ nOps = 0
  /\ lastWrite = NoCall
  /\ lastRead = NoCall
  /\ seedExecuted = FALSE
  /\ pending = [seed |-> SeedFrame("seedIfNeeded", 1)]
  /\ tasksSubject = <<>>

SeedNext ==
  \/ \E ok \in BOOLEAN : initializeDatabase(ok)
  \/ seedIfNeeded
  \/ \E s \in BOOLEAN : createCategories(s)
  \/ \E s \in BOOLEAN : createProjects(s)
  \/ \E s \in BOOLEAN : createTasks(s)
  \/ \E s \in BOOLEAN : markSeedAsExecuted(s)
  \/ resetSeed
  \/ AppComponent_ngOnInit

SpecSeed == SeedInit /\ [][SeedNext]_vars

\* C22: while the seedExecuted flag is set, that is from the marking until a
\* resetSeed, no step of seedIfNeeded changes a store: a later seedIfNeeded
\* creates no category, project or task.
C22_SeedOnce == [][seedExecuted => UNCHANGED stores]_vars

\* a later launch has run seedIfNeeded with the flag set, over seeded stores
C22_Witness ==
  /\ pending.seed.launch > 1
  /\ pending.seed.pc = "done"
  /\ pending.seed.alreadyExecuted
  /\ seedExecuted
  /\ Len(stCategories) + Cardinality(DOMAIN dbCategories) > 0

\* C23: when a create of a seed category, project or task has thrown during
\* seedIfNeeded, the run ends with the seedExecuted flag not set.
C23_NotMarkedOnError ==
  (pending.seed.pc = "done" /\ pending.seed.failed) => ~seedExecuted

\* what the router's getAll of a kind returns when no call throws but the
\* database's before initializeDatabase() has finished
RouterIds(kind) ==
  IF Database_ensureInitialized
  THEN StoredIds(kind, "db")
  ELSE StoredIds(kind, "st")

\* C25: on a native platform, once initializeDatabase() has succeeded, every
\* record created through the router, the seed's created before that
\* included, is among what the router's getAll returns.
C25_NoRecordStranded ==
  (useSQLite /\ isInitialized) =>
    \A kind \in {"Category", "Project", "Task"} :
      StoredIds(kind, "st") \cup StoredIds(kind, "db") \subseteq RouterIds(kind)

\* ========================================================= categories page
MaxUiOps == 3

\* the frame of the pages: n counts the operations started, alert is the id
\* of the category the open confirmation names ("" with none open);
\* deletedInUse is history: CategoryService.deleteCategory was called for a
\* category that a stored project referred to
UiFrame(n, alert, deletedInUse) ==
  [n |-> n, alert |-> alert, deletedInUse |-> deletedInUse]

\* a stored project refers to category id
Referenced(id) ==
  \/ \E k \in DOMAIN dbProjects : dbProjects[k].categoryId = id
  \/ \E i \in 1..Len(stProjects) : stProjects[i].categoryId = id

\* the pages start an operation while no alert is open
UiIdle == pending.ui.alert = "" /\ pending.ui.n < MaxUiOps

UiStarted == [ui |-> [pending.ui EXCEPT !.n = @ + 1]]

\* CategoryFormComponent saves a new category
CategoryService_createCategory(stThrows) ==
  LET used == (DOMAIN dbCategories) \cup Ids(stCategories)
      category == [id |-> generateId(CategoryIdPool, used), name |-> "Lazer",
                   color |-> "#0066FF", icon |-> "game-controller",
                   createdAt |-> now, updatedAt |-> now]
      dbOk == Database_ensureInitialized /\ Database_createCategory_ok(category)
  IN /\ UiIdle
     /\ CanGenerateId(CategoryIdPool, used)
     /\ stThrows => ~dbOk
     /\ dbCategories' = IF dbOk THEN Database_createCategory(category)
                        ELSE dbCategories
     /\ stCategories' = IF ~dbOk /\ ~stThrows
                        THEN Storage_add(stCategories, category) ELSE stCategories
     /\ pending' = UiStarted
     /\ UNCHANGED <<useSQLite, isInitialized, dbProjects, dbTasks, stProjects,
                    stTasks, now, nOps, lastWrite, lastRead, seedExecuted,
                    tasksSubject>>

\* ProjectFormComponent.onSubmit saves a new project in a category of its list
ProjectService_createProject(categoryId, stThrows) ==
  LET used == (DOMAIN dbProjects) \cup Ids(stProjects)
      project == [id |-> generateId(ProjectIdPool, used), name |-> "Novo",
                  categoryId |-> categoryId, createdAt |-> now, updatedAt |-> now]
      dbOk == Database_ensureInitialized /\ Database_createProject_ok(project)
  IN /\ UiIdle
     /\ categoryId \in RouterIds("Category")
     /\ CanGenerateId(ProjectIdPool, used)
     /\ stThrows => ~dbOk
     /\ dbProjects' = IF dbOk THEN Database_createProject(project) ELSE dbProjects
     /\ stProjects' = IF ~dbOk /\ ~stThrows
                      THEN Storage_add(stProjects, project) ELSE stProjects
     /\ pending' = UiStarted
     /\ UNCHANGED <<useSQLite, isInitialized, dbCategories, dbTasks,
                    stCategories, stTasks, now, nOps, lastWrite, lastRead,
                    seedExecuted, tasksSubject>>

\* ProjectsPage.performDelete of a project of its list
ProjectService_deleteProject(id) ==
  /\ UiIdle
  /\ id \in RouterIds("Project")
  /\ dbProjects' = IF Database_ensureInitialized
                   THEN RemoveKeys(dbProjects, {id}) ELSE dbProjects
  /\ dbTasks' = IF Database_ensureInitialized
                THEN Database_deleteProject_tasks(id) ELSE dbTasks
  /\ stProjects' = IF Database_ensureInitialized THEN stProjects
                   ELSE Storage_delete(stProjects, id)
  /\ pending' = UiStarted
  /\ UNCHANGED <<useSQLite, isInitialized, dbCategories, stCategories,
                 stTasks, now, nOps, lastWrite, lastRead, seedExecuted,
                 tasksSubject>>

\* getProjectsByCategory(id).length > 0 through the router, false when the
\* read rejects
isCategoryInUse(id, dbThrows, stThrows) ==
  IF Database_ensureInitialized /\ ~dbThrows THEN ProjectsOfCategory(id) # {}
  ELSE IF stThrows THEN FALSE
  ELSE \E i \in 1..Len(stProjects) : stProjects[i].categoryId = id

\* CategoriesPage.deleteCategory(category) up to alert.present(): the warning
\* for a category in use, else the confirmation
CategoriesPage_deleteCategory(id, dbThrows, stThrows) ==
  /\ UiIdle
  /\ id \in RouterIds("Category")
  /\ dbThrows => Database_ensureInitialized
  /\ stThrows => ~(Database_ensureInitialized /\ ~dbThrows)
  /\ pending' = [ui |-> [pending.ui EXCEPT
                   !.n = @ + 1,
                   !.alert = IF isCategoryInUse(id, dbThrows, stThrows)
                             THEN "" ELSE id]]
  /\ UNCHANGED <<useSQLite, isInitialized, stores, now, nOps, lastWrite,
                 lastRead, seedExecuted, tasksSubject>>

\* the button of the confirmation: Cancelar, or Eliminar whose handler
\* calls CategoryService.deleteCategory
CategoriesPage_alertButton(eliminar) ==
  LET id == pending.ui.alert
      dbOk == Database_ensureInitialized
  IN /\ id # ""
     /\ pending' = [ui |-> [pending.ui EXCEPT
                      !.alert = "",
                      !.deletedInUse = @ \/ (eliminar /\ Referenced(id))]]
     /\ dbCategories' = IF eliminar /\ dbOk THEN RemoveKeys(dbCategories, {id})
                        ELSE dbCategories
     /\ dbProjects' = IF eliminar /\ dbOk
                      THEN RemoveKeys(dbProjects, ProjectsOfCategory(id))
                      ELSE dbProjects
     /\ dbTasks' = IF eliminar /\ dbOk
                   THEN RemoveKeys(dbTasks, TasksOfProjects(ProjectsOfCategory(id)))
                   ELSE dbTasks
     /\ stCategories' = IF eliminar /\ ~dbOk THEN Storage_delete(stCategories, id)
                        ELSE stCategories
     /\ UNCHANGED <<useSQLite, isInitialized, stProjects, stTasks, now, nOps,
                    lastWrite, lastRead, seedExecuted, tasksSubject>>

\* a launch over empty stores or over what an earlier session left
UiInit ==
  /\ useSQLite \in BOOLEAN
  /\ isInitialized = ~useSQLite
  /\ \E seeded \in BOOLEAN :
       /\ dbCategories = IF seeded /\ useSQLite
                         THEN [i \in {"c1"} |-> SeedCategory] ELSE <<>>
       /\ dbProjects = IF seeded /\ useSQLite
                       THEN [i \in {"p1"} |-> SeedProject(i)] ELSE <<>>
       /\ stCategories = IF seeded /\ ~useSQLite THEN <<SeedCategory>> ELSE <<>>
       /\ stProjects = IF seeded /\ ~useSQLite THEN <<SeedProject("p1")>> ELSE <<>>
       /\ seedExecuted = seeded
  /\ dbTasks = <<>>
  /\ stTasks = <<>>
  /\ now = 0
  /\ nOps = 0
  /\ lastWrite = NoCall
  /\ lastRead = NoCall
  /\ pending = [ui |-> UiFrame(0, "", FALSE)]
  /\ tasksSubject = <<>>

UiNext ==
  \/ \E ok \in BOOLEAN : initializeDatabase(ok)
  \/ \E s \in BOOLEAN : CategoryService_createCategory(s)
  \/ \E c \in Range(CategoryIdPool), s \in BOOLEAN :
       ProjectService_createProject(c, s)
  \/ \E id \in Range(ProjectIdPool) : ProjectService_deleteProject(id)
  \/ \E id \in Range(CategoryIdPool), d \in BOOLEAN, s \in BOOLEAN :
       CategoriesPage_deleteCategory(id, d, s)
  \/ \E eliminar \in BOOLEAN : CategoriesPage_alertButton(eliminar)

SpecUi == UiInit /\ [][UiNext]_vars

\* C24: CategoriesPage.deleteCategory never calls
\* CategoryService.deleteCategory for a category that a stored project refers
\* to, and the categoryId of every stored project is the id of a stored
\* category.
C24_CategoryInUseKept ==
  /\ ~pending.ui.deletedInUse
  /\ \A id \in StoredIds("Project", "db") : dbProjects[id].categoryId \in StoredIds("Category", "db") \cup StoredIds("Category", "st")
  /\ \A i \in 1..Len(stProjects) :
       stProjects[i].categoryId \in StoredIds("Category", "db") \cup StoredIds("Category", "st")

\* ======================================================= overlapping calls
MaxCalls == 1

\* the two callers of TaskService whose calls may overlap
Callers == {"a", "b"}

\* the frame of a caller's TaskService call: pc is the await it stands at,
\* task the Task createTask has built, list the array the storage call has
\* read, n the calls the caller has started
CallFrame(pc, op, arg, n) ==
  [pc |-> pc, op |-> op, arg |-> arg, task |-> NoRecord, list |-> <<>>, n |-> n]

CanCall(c) == pending[c].pc \in {"idle", "done"} /\ pending[c].n < MaxCalls

Called(c, pc, op, arg) ==
  /\ pending' = [pending EXCEPT ![c] = CallFrame(pc, op, arg, pending[c].n + 1)]
  /\ UNCHANGED <<useSQLite, isInitialized, stores, now, nOps, lastWrite,
                 lastRead, seedExecuted, tasksSubject>>

\* TaskService.createTask(data) is called: up to its first await
Call_createTask(c, data) ==
  CanCall(c) /\ Called(c, "getTasksByProject", "createTask", data)

\* TaskService.updateTask(id, updates) is called
Call_updateTask(c, id, updates) ==
  CanCall(c) /\ Called(c, "write", "updateTask", [id |-> id, updates |-> updates])

\* TaskService.deleteTask(id) is called
Call_deleteTask(c, id) ==
  CanCall(c) /\ Called(c, "write", "deleteTask", [id |-> id])

\* TaskService.loadTasks() is called, as TasksPage.loadData does
Call_loadTasks(c) ==
  CanCall(c) /\ Called(c, "loadTasks", "loadTasks", <<>>)

\* the ids of the tasks built by calls in flight
InFlightIds ==
  {pending[c].task.id : c \in {x \in Callers : pending[x].task # NoRecord}}

\* createTask: getTasksByProject resolves and the Task is built
Step_getTasksByProject(c) ==
  LET used == (DOMAIN dbTasks) \cup Ids(stTasks) \cup InFlightIds \cup {"t1"}
      data == pending[c].arg
  IN /\ pending[c].pc = "getTasksByProject"
     /\ CanGenerateId(TaskIdPool, used)
     /\ \E existingTasks \in
             IF Database_ensureInitialized
             THEN Database_getTasksByProject(data.projectId)
             ELSE {SelectSeq(stTasks, LAMBDA t : t.projectId = data.projectId)} :
          pending' = [pending EXCEPT
            ![c].pc = "write",
            ![c].task = NewTask(data, generateId(TaskIdPool, used),
                                existingTasks, now)]
     /\ UNCHANGED <<useSQLite, isInitialized, stores, now, nOps, lastWrite,
                    lastRead, seedExecuted, tasksSubject>>

\* the router's write is served by the database: one statement
Step_databaseWrite(c) ==
  LET f == pending[c]
  IN /\ f.pc = "write"
     /\ Database_ensureInitialized
     /\ f.op = "createTask" => Database_createTask_ok(f.task)
     /\ f.op = "updateTask" => Database_updateTask_ok(f.arg.id, f.arg.updates)
     /\ dbTasks' = CASE f.op = "createTask" -> Database_createTask(f.task)
                     [] f.op = "updateTask" ->
                          Database_updateTask(f.arg.id, f.arg.updates, now)
                     [] f.op = "deleteTask" -> Database_deleteTask(f.arg.id)
     /\ pending' = [pending EXCEPT ![c].pc = "loadTasks"]
     /\ UNCHANGED <<useSQLite, isInitialized, dbCategories, dbProjects,
                    stCategories, stProjects, stTasks, now, nOps, lastWrite,
                    lastRead, seedExecuted, tasksSubject>>

\* the router's write is served by storage: const tasks = await getTasks()
Step_storageGet(c) ==
  /\ pending[c].pc = "write"
  /\ ~Database_ensureInitialized
  /\ pending' = [pending EXCEPT ![c].pc = "setTasks", ![c].list = stTasks]
  /\ UNCHANGED <<useSQLite, isInitialized, stores, now, nOps, lastWrite,
                 lastRead, seedExecuted, tasksSubject>>

\* await setTasks(<the array read, changed>)
Step_storageSet(c) ==
  LET f == pending[c]
  IN /\ f.pc = "setTasks"
     /\ stTasks' = CASE f.op = "createTask" -> Storage_add(f.list, f.task)
                     [] f.op = "updateTask" ->
                          Storage_update(f.list, f.arg.id, f.arg.updates, now)
                     [] f.op = "deleteTask" -> Storage_delete(f.list, f.arg.id)
     /\ pending' = [pending EXCEPT ![c].pc = "loadTasks", ![c].list = <<>>]
     /\ UNCHANGED <<useSQLite, isInitialized, dbCategories, dbProjects, dbTasks,
                    stCategories, stProjects, now, nOps, lastWrite, lastRead,
                    seedExecuted, tasksSubject>>

\* what the router's getAllTasks resolves with
RouterAllTasks ==
  IF Database_ensureInitialized THEN Database_getAllTasks ELSE {stTasks}

\* loadTasks(): getAllTasks resolves and tasksSubject.next(tasks), or it
\* rejects and the catch block emits []
Step_loadTasks(c, rejects) ==
  /\ pending[c].pc = "loadTasks"
  /\ \E tasks \in RouterAllTasks :
       tasksSubject' = IF rejects THEN <<>> ELSE tasks
  /\ pending' = [pending EXCEPT ![c].pc = "done"]
  /\ UNCHANGED <<useSQLite, isInitialized, stores, now, nOps, lastWrite,
                 lastRead, seedExecuted>>

\* the services after initializeDatabase() over the stores of an earlier
\* session; the constructor of TaskService has called loadTasks()
CallsInit ==
  /\ useSQLite \in BOOLEAN
  /\ isInitialized = TRUE
  /\ dbCategories = IF useSQLite THEN [i \in {"c1"} |-> SeedCategory] ELSE <<>>
  /\ dbProjects = IF useSQLite THEN [i \in {"p1"} |-> SeedProject(i)] ELSE <<>>
  /\ dbTasks = IF useSQLite THEN [i \in {"t1"} |-> TaskRow(BaseTask("t1", 0))]
               ELSE <<>>
  /\ stCategories = IF useSQLite THEN <<>> ELSE <<SeedCategory>>
  /\ stProjects = IF useSQLite THEN <<>> ELSE <<SeedProject("p1")>>
  /\ stTasks = IF useSQLite THEN <<>> ELSE <<BaseTask("t1", 0)>>
  /\ now = 0
  /\ nOps = 0
  /\ lastWrite = NoCall
  /\ lastRead = NoCall
  /\ seedExecuted = TRUE
  /\ pending = [c \in Callers |->
                  IF c = "a" THEN CallFrame("loadTasks", "loadTasks", <<>>, 0)
                  ELSE CallFrame("idle", "none", <<>>, 0)]
  /\ tasksSubject = <<>>

CallsNext ==
  \E c \in Callers :
    \/ \E data \in CreateTaskDtos : Call_createTask(c, data)
    \/ Call_updateTask(c, "t1", [completed |-> TRUE])
    \/ Call_deleteTask(c, "t1")
    \/ Call_loadTasks(c)
    \/ Step_getTasksByProject(c)
    \/ Step_databaseWrite(c)
    \/ Step_storageGet(c)
    \/ Step_storageSet(c)
    \/ \E rejects \in BOOLEAN : Step_loadTasks(c, rejects)

SpecCalls == CallsInit /\ [][CallsNext]_vars

\* the call of caller c has returned
Done(c) == pending[c].pc = "done"

\* C26: in the document backend, once two overlapping router writes have
\* both returned, the stored list reflects both: a created task is stored, a
\* deleted task is not, an updated task that is stored has the update.
C26_NoLostUpdate ==
  ~useSQLite =>
    \A c \in Callers :
      Done(c) =>
        /\ pending[c].op = "createTask" => pending[c].task.id \in Ids(stTasks)
        /\ pending[c].op = "deleteTask" => pending[c].arg.id \notin Ids(stTasks)
        /\ pending[c].op = "updateTask" =>
             \A i \in 1..Len(stTasks) :
               stTasks[i].id = pending[c].arg.id => stTasks[i].completed

\* C27: the tasks of a project, all created by TaskService.createTask without
\* an order, have pairwise different orders.
C27_UniqueOrders ==
  /\ \A i, j \in 1..Len(stTasks) :
       (i # j /\ stTasks[i].projectId = stTasks[j].projectId)
         => stTasks[i].order # stTasks[j].order
  /\ \A i, j \in DOMAIN dbTasks :
       (i # j /\ dbTasks[i].projectId = dbTasks[j].projectId)
         => dbTasks[i].order # dbTasks[j].order

\* C28: when no call of TaskService is in flight, the last value of tasks$ is
\* what the router's getAllTasks returns.
C28_TasksConverge ==
  (\A c \in Callers : pending[c].pc \in {"idle", "done"})
    => tasksSubject \in RouterAllTasks

\* ======================================================== the two backends
MaxSteps == 3

\* One sequence of router calls, run against the relational backend (a
\* native platform, no database error) and against the document backend (the
\* web platform): dbTasks and stTasks are the two outcomes.  n counts the
\* calls, created holds the ids createTask was called with.
BothFrame(n, created) == [n |-> n, created |-> created]

BothStep(created) ==
  /\ pending.both.n < MaxSteps
  /\ pending' = [both |-> BothFrame(pending.both.n + 1, created)]
  /\ UNCHANGED <<useSQLite, isInitialized, dbCategories, dbProjects,
                 stCategories, stProjects, now, nOps, lastWrite, lastRead,
                 seedExecuted, tasksSubject>>

\* createTask(task) with an id no earlier createTask had; the INSERT succeeds
Both_createTask(task) ==
  /\ task.id \notin pending.both.created
  /\ Database_createTask_ok(task)
  /\ dbTasks' = Database_createTask(task)
  /\ stTasks' = Storage_add(stTasks, task)
  /\ BothStep(pending.both.created \cup {task.id})

\* updateTask(id, updates); the UPDATE succeeds
Both_updateTask(id, updates) ==
  /\ Database_updateTask_ok(id, updates)
  /\ dbTasks' = Database_updateTask(id, updates, now)
  /\ stTasks' = Storage_update(stTasks, id, updates, now)
  /\ BothStep(pending.both.created)

Both_deleteTask(id) ==
  /\ dbTasks' = Database_deleteTask(id)
  /\ stTasks' = Storage_delete(stTasks, id)
  /\ BothStep(pending.both.created)

Both_updateTasksOrder(list) ==
  /\ dbTasks' = Database_updateTasksOrder(dbTasks, list, Len(list), now)
  /\ stTasks' = Storage_updateTasksOrder(stTasks, list, Len(list), now)
  /\ BothStep(pending.both.created)

\* both backends hold the category and its projects and no task
BothInit ==
  /\ useSQLite = TRUE
  /\ isInitialized = TRUE
  /\ dbCategories = [i \in {"c1"} |-> SeedCategory]
  /\ dbProjects = [i \in ProjectIds |-> SeedProject(i)]
  /\ dbTasks = <<>>
  /\ stCategories = <<SeedCategory>>
  /\ stProjects = <<SeedProject("p1"), SeedProject("p2")>>
  /\ stTasks = <<>>
  /\ now = 0
  /\ nOps = 0
  /\ lastWrite = NoCall
  /\ lastRead = NoCall
  /\ seedExecuted = TRUE
  /\ pending = [both |-> BothFrame(0, {})]
  /\ tasksSubject = <<>>

BothNext ==
  \/ \E t \in TaskInputs(now) : Both_createTask(t)
  \/ \E id \in TaskIds, u \in TaskUpdates : Both_updateTask(id, u)
  \/ \E id \in TaskIds : Both_deleteTask(id)
  \/ \E l \in OrderLists : Both_updateTasksOrder(l)

SpecBoth == BothInit /\ [][BothNext]_vars

\* C29: after a sequence of createTask (pairwise different ids), updateTask,
\* deleteTask and updateTasksOrder calls that meets no backend failure, the
\* two backends return the same task ids from getAllTasks and from
\* getTasksByProject(p) for every p, and for every id the same projectId,
\* title, description, dueDate, completed and order.
C29_BackendsAgree ==
  /\ Ids(stTasks) = DOMAIN dbTasks
  /\ \A p \in ProjectIds :
       Ids(SelectSeq(stTasks, LAMBDA t : t.projectId = p))
         = {k \in DOMAIN dbTasks : dbTasks[k].projectId = p}
  /\ \A i \in 1..Len(stTasks) :
       stTasks[i].id \in DOMAIN dbTasks =>
         \A f \in {"projectId", "title", "description", "dueDate", "completed",
                   "order"} :
           stTasks[i][f] = RowTask(dbTasks[stTasks[i].id])[f]

====
